---------------------------- MODULE Spec2Model ----------------------------
(***************************************************************************)
(* The stack machine of src/sm.cpp: a word-addressed memory holding code   *)
(* and data, an evaluation stack (std::vector<int32_t>), the instruction   *)
(* pointer ip, stdin/stdout as byte ports, and main()'s fetch/decode/      *)
(* execute loop.  The loader (reset, load, init) is modelled too, since    *)
(* it is what produces the memory image the loop runs on.                  *)
(***************************************************************************)
EXTENDS Integers, Sequences, FiniteSets, TLC

(***************************************************************************)
(* Bounds of the model.                                                    *)
(***************************************************************************)
\* memory[] holds 1024*1000 = 4 * 256000 words in the source.  The model
\* keeps it a multiple of sizeof(int32_t), which is what decides whether
\* next() lands exactly on the index CAPACITY, and scales the multiplier.
MemQuads == 42
\* At most this many load() calls build a memory image in Spec.
MaxLoad == 3
\* At most this many iterations of the execution loop are followed in Spec.
MaxSteps == 5
\* At most this many iterations of the execution loop are followed in SpecDemo.
DemoSteps == 30
\* The stacks push() and pop() are called on directly in SpecStack hold at
\* most this many words.
MaxDepth == 3

(***************************************************************************)
(* enum Op, and the word size.                                             *)
(***************************************************************************)
NOP == 0
ADD == 1
SUB == 2
AND == 3
OR == 4
XOR == 5
NOT == 6
\* IN (a reserved word of TLA+)
IN_ == 7
OUT == 8
LOAD == 9
STOR == 10
JMP == 11
JZ == 12
PUSH == 13
DUP == 14

Opcodes == NOP..DUP

\* sizeof(int32_t)
WordSize == 4

\* sizeof(memory)/sizeof(int32_t)
CAPACITY == WordSize * MemQuads

\* getc()'s end-of-file value
EOF == -1

\* The indices of memory[].
Addresses == 0..(CAPACITY - 1)

VARIABLES
  memory,    \* int32_t memory[CAPACITY]
  ip,        \* int32_t ip
  stack,     \* the elements of std::vector<int32_t> stack, bottom first
  under,     \* how many words below the vector's storage pop() has stepped over
  alloc,     \* whether the vector owns storage (some push_back has happened)
  fin,       \* the bytes getc(fin) has read from stdin so far
  feof,      \* whether getc(fin) has met the end of stdin
  fout,      \* the bytes written to stdout
  pc,        \* "load": main() before init(); "run": in the loop; "exit"; "crash";
             \* "call": push() and pop() are called directly
  exitCode,  \* the argument of exit(), -1 while the process has not exited
  msg,       \* the line stop() or check_bounds() wrote to stderr, "" if none
  traced,    \* the number of trace lines the loop wrote to stderr
  call       \* a direct call sequence push(v); pop(): the word v, the stack
             \* contents s it started on, the word n pop() returned, and how
             \* far it is

vars == <<memory, ip, stack, under, alloc, fin, feof, fout, pc, exitCode, msg, traced, call>>

(***************************************************************************)
(* Values that stand for what a read outside an object may yield: a valid  *)
(* opcode that is also a valid address, a negative word and a word that    *)
(* is no opcode.                                                           *)
(***************************************************************************)
Unspecified == {-1, NOP, CAPACITY}

\* The byte values stdin delivers.
Bytes == {0, 65, 255}

\* The words load() is given in Spec: every opcode (each also a small
\* address), a negative word, and the words at and past the end of memory,
\* none of the three an opcode.
LoadWords == Opcodes \cup {-1, CAPACITY, CAPACITY + 1}

(***************************************************************************)
(* The helpers of the machine.                                             *)
(***************************************************************************)
\* int32_t n compared with the size_t sizeof(memory)/sizeof(int32_t): n is
\* converted to unsigned, so a negative n compares greater.
UnsignedGreater(n, m) == n < 0 \/ n > m

\* next(): the value ip has after it.
next(p) == IF UnsignedGreater(p + WordSize, CAPACITY) THEN 0 ELSE p + WordSize

\* check_bounds(): TRUE when it returns, FALSE when it exits.
check_bounds(n) == n >= 0 /\ ~UnsignedGreater(n, CAPACITY)

\* The words a read of memory[a] may yield: the word stored there, or, one
\* past the end of the array, whatever lies behind it.
Read(a) == IF a \in Addresses THEN {memory[a]} ELSE Unspecified

\* push(): the elements after push_back(n).
push(s, n) == Append(s, n)

\* pop() returning the oldest word instead of the newest.
pop_oldest(s, u) ==
  IF Len(s) > 0
    THEN {[n |-> s[1], s |-> SubSeq(s, 1, Len(s) - 1), u |-> u, fault |-> FALSE]}
    ELSE {[n |-> 0, s |-> s, u |-> u, fault |-> TRUE]}

\* pop(): the possible outcomes on elements s with u words stepped over.
\* On an empty vector back() and pop_back() are undefined: the process
\* faults (always so when the vector owns no storage, its pointers being
\* null), or the word in front of the storage is returned and the end
\* pointer moves below the begin pointer.
pop(s, u) ==
  IF Len(s) > 0
    THEN {[n |-> s[Len(s)], s |-> SubSeq(s, 1, Len(s) - 1), u |-> u, fault |-> FALSE]}
    ELSE {[n |-> 0, s |-> s, u |-> u, fault |-> TRUE]}
         \cup (IF alloc
                 THEN {[n |-> g, s |-> s, u |-> u + 1, fault |-> FALSE] : g \in Unspecified}
                 ELSE {})

\* getc(fin): the values it may return: the next byte of stdin, or EOF, and
\* EOF again once the end was met.
getc == IF feof THEN {EOF} ELSE Bytes \cup {EOF}

\* putc() as a 7-bit port would write c.
putc_7bit(c, out) == Append(out, c % 128)

\* putc(c, fout): c is written converted to unsigned char.
putc(c, out) == Append(out, c % 256)

\* !a
LogicalNot(a) == IF a = 0 THEN 1 ELSE 0

\* a + b
Plus(a, b) == a + b

RECURSIVE BitAnd(_, _)
\* a & b on two's complement words.
BitAnd(a, b) ==
  IF a = 0 \/ b = 0 THEN 0
  ELSE IF a = -1 THEN b
  ELSE IF b = -1 THEN a
  ELSE 2 * BitAnd(a \div 2, b \div 2) + (a % 2) * (b % 2)

RECURSIVE BitOr(_, _)
\* a | b on two's complement words.
BitOr(a, b) ==
  IF a = 0 THEN b
  ELSE IF b = 0 THEN a
  ELSE IF a = -1 \/ b = -1 THEN -1
  ELSE 2 * BitOr(a \div 2, b \div 2) + (IF a % 2 = 1 \/ b % 2 = 1 THEN 1 ELSE 0)

RECURSIVE BitXor(_, _)
\* a ^ b on two's complement words.
BitXor(a, b) ==
  IF a = 0 THEN b
  ELSE IF b = 0 THEN a
  ELSE IF a = -1 /\ b = -1 THEN 0
  ELSE 2 * BitXor(a \div 2, b \div 2) + (IF a % 2 = b % 2 THEN 0 ELSE 1)

(***************************************************************************)
(* The state main() is in after reset(): memory is all NOP, ip is 0 and    *)
(* the stack is empty.                                                     *)
(***************************************************************************)
reset ==
  /\ memory = [a \in Addresses |-> NOP]
  /\ ip = 0
  /\ stack = <<>>

NoCall == [v |-> 0, s |-> <<>>, n |-> 0, at |-> "none"]

Init ==
  /\ reset
  /\ under = 0
  /\ alloc = FALSE
  /\ fin = <<>>
  /\ feof = FALSE
  /\ fout = <<>>
  /\ pc = "load"
  /\ exitCode = -1
  /\ msg = ""
  /\ traced = 0
  /\ call = NoCall

(***************************************************************************)
(* The loader.                                                             *)
(***************************************************************************)
\* load(n): memory[ip] = n; next().
load(n) ==
  /\ pc = "load"
  /\ ip \in Addresses
  /\ memory' = [memory EXCEPT ![ip] = n]
  /\ ip' = next(ip)
  /\ UNCHANGED <<stack, under, alloc, fin, feof, fout, pc, exitCode, msg, traced, call>>

\* init(), after which the loop is entered.
init ==
  /\ pc = "load"
  /\ ip' = 0
  /\ pc' = "run"
  /\ UNCHANGED <<memory, stack, under, alloc, fin, feof, fout, exitCode, msg, traced, call>>

\* Some image of at most MaxLoad words is loaded.
LoadAny ==
  /\ ip < WordSize * MaxLoad
  /\ \E n \in LoadWords : load(n)

(***************************************************************************)
(* The execution loop: one action per case of the switch.  Every iteration *)
(* fetches memory[ip] and writes one trace line before it dispatches.      *)
(***************************************************************************)
Fetched(op) == pc = "run" /\ op \in Read(ip) /\ traced' = traced + 1

\* stack[i] of the trace line: the word at index i, counted from 0, or an
\* unspecified word when i is no index of s.
At(s, i) == IF i \in 0..(Len(s) - 1) THEN {s[i + 1]} ELSE Unspecified

\* The trace line reading stack[size() - 1] whatever the size.
peek_unguarded(s) ==
  [a : At(s, Len(s) - 1),
   b : At(s, Len(s) - 1),
   reads : {{Len(s) - 1}},
   s : {s}]

\* The stack part of the trace line of an iteration on the stack s: a and b
\* are NOP unless the stack holds more than 1 and more than 2 words, and are
\* then both read at index size() - 1; reads are the indices read and s is
\* the stack the reading leaves.
peek(s) ==
  [a : IF Len(s) > 1 THEN At(s, Len(s) - 1) ELSE {NOP},
   b : IF Len(s) > 2 THEN At(s, Len(s) - 1) ELSE {NOP},
   reads : {(IF Len(s) > 1 THEN {Len(s) - 1} ELSE {})
              \cup (IF Len(s) > 2 THEN {Len(s) - 1} ELSE {})},
   s : {s}]

\* The process is killed by the fault of an undefined access.
Crash ==
  /\ pc' = "crash"
  /\ UNCHANGED <<memory, ip, stack, under, alloc, fin, feof, fout, exitCode, msg, call>>

\* exit(code) after writing m to stderr, the stack holding s.
Exit(m, code, s, u) ==
  /\ pc' = "exit"
  /\ exitCode' = code
  /\ msg' = m
  /\ stack' = s
  /\ under' = u
  /\ UNCHANGED <<memory, ip, alloc, fin, feof, fout, call>>

\* stop(s, code)
stop(m, code, s, u) == Exit(m, code, s, u)

\* The exit of check_bounds(n, m)
OutOfBounds(m, s, u) == Exit(m \o " out of bounds", 1, s, u)

StepNOP ==
  /\ Fetched(NOP)
  /\ ip' = next(ip)
  /\ UNCHANGED <<memory, stack, under, alloc, fin, feof, fout, pc, exitCode, msg, call>>

\* An operator that depends on the order of its operands in every case.
Apply_minus(op, a, b) == a - b

\* The operator of a case push(pop() op pop()).
Apply(op, a, b) ==
  CASE op = ADD -> Plus(a, b)
    [] op = AND -> BitAnd(a, b)
    [] op = OR -> BitOr(a, b)
    [] op = XOR -> BitXor(a, b)

\* push(pop() op pop()): the order in which the two operands are evaluated is
\* unspecified, so the left operand is the first or the second word popped.
Binary(op) ==
  /\ Fetched(op)
  /\ \E p1 \in pop(stack, under) : \E p2 \in pop(p1.s, p1.u) :
       IF p1.fault \/ p2.fault THEN Crash
       ELSE /\ \E r \in {Apply(op, p1.n, p2.n), Apply(op, p2.n, p1.n)} :
                 stack' = push(p2.s, r)
            /\ under' = p2.u
            /\ alloc' = TRUE
            /\ ip' = next(ip)
            /\ UNCHANGED <<memory, fin, feof, fout, pc, exitCode, msg, call>>

StepADD == Binary(ADD)

\* SUB with the operands exchanged: the word below minus the top.
StepSUB_swapped ==
  /\ Fetched(SUB)
  /\ \E pa \in pop(stack, under) : \E pb \in pop(pa.s, pa.u) :
       IF pa.fault \/ pb.fault THEN Crash
       ELSE /\ stack' = push(pb.s, pb.n - pa.n)
            /\ under' = pb.u
            /\ alloc' = TRUE
            /\ ip' = next(ip)
            /\ UNCHANGED <<memory, fin, feof, fout, pc, exitCode, msg, call>>

StepSUB ==
  /\ Fetched(SUB)
  /\ \E pa \in pop(stack, under) : \E pb \in pop(pa.s, pa.u) :
       IF pa.fault \/ pb.fault THEN Crash
       ELSE /\ stack' = push(pb.s, pa.n - pb.n)
            /\ under' = pb.u
            /\ alloc' = TRUE
            /\ ip' = next(ip)
            /\ UNCHANGED <<memory, fin, feof, fout, pc, exitCode, msg, call>>

StepAND == Binary(AND)

StepOR == Binary(OR)

StepXOR == Binary(XOR)

StepNOT ==
  /\ Fetched(NOT)
  /\ \E p \in pop(stack, under) :
       IF p.fault THEN Crash
       ELSE /\ stack' = push(p.s, LogicalNot(p.n))
            /\ under' = p.u
            /\ alloc' = TRUE
            /\ ip' = next(ip)
            /\ UNCHANGED <<memory, fin, feof, fout, pc, exitCode, msg, call>>

\* IN pushing the byte as a signed char.
StepIN_signed ==
  /\ Fetched(IN_)
  /\ \E c \in getc :
       /\ stack' = push(stack, IF c >= 128 THEN c - 256 ELSE c)
       /\ fin' = IF c = EOF THEN fin ELSE Append(fin, c)
       /\ feof' = (c = EOF)
  /\ alloc' = TRUE
  /\ ip' = next(ip)
  /\ UNCHANGED <<memory, under, fout, pc, exitCode, msg, call>>

StepIN ==
  /\ Fetched(IN_)
  /\ \E c \in getc :
       /\ stack' = push(stack, c)
       /\ fin' = IF c = EOF THEN fin ELSE Append(fin, c)
       /\ feof' = (c = EOF)
  /\ alloc' = TRUE
  /\ ip' = next(ip)
  /\ UNCHANGED <<memory, under, fout, pc, exitCode, msg, call>>

\* OUT writing the top of the stack without popping it.
StepOUT_peek ==
  /\ Fetched(OUT)
  /\ \E p \in pop(stack, under) :
       IF p.fault THEN Crash
       ELSE /\ fout' = putc(p.n, fout)
            /\ ip' = next(ip)
            /\ UNCHANGED <<memory, stack, under, alloc, fin, feof, pc, exitCode, msg, call>>

StepOUT ==
  /\ Fetched(OUT)
  /\ \E p \in pop(stack, under) :
       IF p.fault THEN Crash
       ELSE /\ fout' = putc(p.n, fout)
            /\ stack' = p.s
            /\ under' = p.u
            /\ ip' = next(ip)
            /\ UNCHANGED <<memory, alloc, fin, feof, pc, exitCode, msg, call>>

\* LOAD clearing the word it has read.
StepLOAD_clearing ==
  /\ Fetched(LOAD)
  /\ \E p \in pop(stack, under) :
       IF p.fault THEN Crash
       ELSE IF ~check_bounds(p.n) THEN OutOfBounds("LOAD", p.s, p.u)
       ELSE /\ \E w \in Read(p.n) : stack' = push(p.s, w)
            /\ memory' = IF p.n \in Addresses THEN [memory EXCEPT ![p.n] = NOP]
                                               ELSE memory
            /\ under' = p.u
            /\ alloc' = TRUE
            /\ ip' = next(ip)
            /\ UNCHANGED <<fin, feof, fout, pc, exitCode, msg, call>>

StepLOAD ==
  /\ Fetched(LOAD)
  /\ \E p \in pop(stack, under) :
       IF p.fault THEN Crash
       ELSE IF ~check_bounds(p.n) THEN OutOfBounds("LOAD", p.s, p.u)
       ELSE /\ \E w \in Read(p.n) : stack' = push(p.s, w)
            /\ under' = p.u
            /\ alloc' = TRUE
            /\ ip' = next(ip)
            /\ UNCHANGED <<memory, fin, feof, fout, pc, exitCode, msg, call>>

\* STOR popping the value first and the address second.
StepSTOR_swapped ==
  /\ Fetched(STOR)
  /\ \E pb \in pop(stack, under) : \E pa \in pop(pb.s, pb.u) :
       IF pa.fault \/ pb.fault THEN Crash
       ELSE IF ~check_bounds(pa.n) THEN OutOfBounds("STOR", pa.s, pa.u)
       ELSE /\ IF pa.n \in Addresses
                 THEN /\ memory' = [memory EXCEPT ![pa.n] = pb.n]
                      /\ ip' = next(ip)
                 ELSE /\ memory' = memory
                      /\ ip' \in {next(ip), next(pb.n)}
            /\ stack' = pa.s
            /\ under' = pa.u
            /\ UNCHANGED <<alloc, fin, feof, fout, pc, exitCode, msg, call>>

\* memory[a] = b.  One past the end of the array the store goes to whatever
\* lies behind it: nothing the machine reads, or ip, declared next.
StepSTOR ==
  /\ Fetched(STOR)
  /\ \E pa \in pop(stack, under) : \E pb \in pop(pa.s, pa.u) :
       IF pa.fault \/ pb.fault THEN Crash
       ELSE IF ~check_bounds(pa.n) THEN OutOfBounds("STOR", pb.s, pb.u)
       ELSE /\ IF pa.n \in Addresses
                 THEN /\ memory' = [memory EXCEPT ![pa.n] = pb.n]
                      /\ ip' = next(ip)
                 ELSE /\ memory' = memory
                      /\ ip' \in {next(ip), next(pb.n)}
            /\ stack' = pb.s
            /\ under' = pb.u
            /\ UNCHANGED <<alloc, fin, feof, fout, pc, exitCode, msg, call>>

\* JMP without the test for a jump to the current address.
StepJMP_nohalt ==
  /\ Fetched(JMP)
  /\ \E p \in pop(stack, under) :
       IF p.fault THEN Crash
       ELSE IF ~check_bounds(p.n) THEN OutOfBounds("JMP", p.s, p.u)
       ELSE /\ ip' = p.n
            /\ stack' = p.s
            /\ under' = p.u
            /\ UNCHANGED <<memory, alloc, fin, feof, fout, pc, exitCode, msg, call>>

StepJMP ==
  /\ Fetched(JMP)
  /\ \E p \in pop(stack, under) :
       IF p.fault THEN Crash
       ELSE IF ~check_bounds(p.n) THEN OutOfBounds("JMP", p.s, p.u)
       ELSE IF p.n = ip THEN stop("HALT", 0, p.s, p.u)
       ELSE /\ ip' = p.n
            /\ stack' = p.s
            /\ under' = p.u
            /\ UNCHANGED <<memory, alloc, fin, feof, fout, pc, exitCode, msg, call>>

\* JZ with the test inverted: the jump is taken on a non-zero word.
StepJZ_nonzero ==
  /\ Fetched(JZ)
  /\ \E p \in pop(stack, under) :
       IF p.fault THEN Crash
       ELSE IF p.n = 0
         THEN /\ ip' = next(ip)
              /\ stack' = p.s
              /\ under' = p.u
              /\ UNCHANGED <<memory, alloc, fin, feof, fout, pc, exitCode, msg, call>>
       ELSE IF ~check_bounds(p.n) THEN OutOfBounds("JZ", p.s, p.u)
       ELSE /\ ip' = p.n
            /\ stack' = p.s
            /\ under' = p.u
            /\ UNCHANGED <<memory, alloc, fin, feof, fout, pc, exitCode, msg, call>>

StepJZ ==
  /\ Fetched(JZ)
  /\ \E p \in pop(stack, under) :
       IF p.fault THEN Crash
       ELSE IF p.n # 0
         THEN /\ ip' = next(ip)
              /\ stack' = p.s
              /\ under' = p.u
              /\ UNCHANGED <<memory, alloc, fin, feof, fout, pc, exitCode, msg, call>>
       ELSE IF ~check_bounds(p.n) THEN OutOfBounds("JZ", p.s, p.u)
       ELSE /\ ip' = p.n
            /\ stack' = p.s
            /\ under' = p.u
            /\ UNCHANGED <<memory, alloc, fin, feof, fout, pc, exitCode, msg, call>>

StepPUSH ==
  /\ Fetched(PUSH)
  /\ \E a \in Read(next(ip)) : stack' = push(stack, a)
  /\ alloc' = TRUE
  /\ ip' = next(next(ip))
  /\ UNCHANGED <<memory, under, fin, feof, fout, pc, exitCode, msg, call>>

\* DUP pushing the popped word back once only.
StepDUP_once ==
  /\ Fetched(DUP)
  /\ \E p \in pop(stack, under) :
       IF p.fault THEN Crash
       ELSE /\ stack' = push(p.s, p.n)
            /\ under' = p.u
            /\ alloc' = TRUE
            /\ ip' = next(ip)
            /\ UNCHANGED <<memory, fin, feof, fout, pc, exitCode, msg, call>>

StepDUP ==
  /\ Fetched(DUP)
  /\ \E p \in pop(stack, under) :
       IF p.fault THEN Crash
       ELSE /\ stack' = push(push(p.s, p.n), p.n)
            /\ under' = p.u
            /\ alloc' = TRUE
            /\ ip' = next(ip)
            /\ UNCHANGED <<memory, fin, feof, fout, pc, exitCode, msg, call>>

\* A word that is no case of the switch: nothing is executed and the loop
\* fetches the same word again.
StepOther ==
  /\ \E w \in Read(ip) : w \notin Opcodes /\ Fetched(w)
  /\ UNCHANGED <<memory, ip, stack, under, alloc, fin, feof, fout, pc, exitCode, msg, call>>

(***************************************************************************)
(* Spec: the loop on every image the loader builds from at most MaxLoad    *)
(* words, followed for MaxSteps iterations.                                *)
(***************************************************************************)
Next ==
  \/ LoadAny
  \/ init
  \/ traced < MaxSteps /\ StepNOP
  \/ traced < MaxSteps /\ StepADD
  \/ traced < MaxSteps /\ StepSUB
  \/ traced < MaxSteps /\ StepAND
  \/ traced < MaxSteps /\ StepOR
  \/ traced < MaxSteps /\ StepXOR
  \/ traced < MaxSteps /\ StepNOT
  \/ traced < MaxSteps /\ StepIN
  \/ traced < MaxSteps /\ StepOUT
  \/ traced < MaxSteps /\ StepLOAD
  \/ traced < MaxSteps /\ StepSTOR
  \/ traced < MaxSteps /\ StepJMP
  \/ traced < MaxSteps /\ StepJZ
  \/ traced < MaxSteps /\ StepPUSH
  \/ traced < MaxSteps /\ StepDUP
  \/ traced < MaxSteps /\ StepOther

Spec == Init /\ [][Next]_vars

(***************************************************************************)
(* SpecDemo: the loop on the reference programs, the one main() loads (it  *)
(* prints "Hello world!\n" and halts), the echo loop IN; OUT, and the      *)
(* programs that store a word, load it back and jump to it.                *)
(***************************************************************************)
\* An argument of load(): the word n, or ip + n for the current ip.
Abs(n) == [rel |-> FALSE, n |-> n]

Rel(n) == [rel |-> TRUE, n |-> n]

\* The word load() is given for entry e when ip is p.
Arg(e, p) == IF e.rel THEN p + e.n ELSE e.n

\* The load() calls of main(): the message, then the halt.
HelloLoads ==
  << Abs(PUSH), Abs(72), Abs(OUT),
     Abs(PUSH), Abs(101), Abs(OUT),
     Abs(PUSH), Abs(108), Abs(DUP), Abs(OUT), Abs(OUT),
     Abs(PUSH), Abs(111), Abs(OUT),
     Abs(PUSH), Abs(32), Abs(OUT),
     Abs(PUSH), Abs(119), Abs(OUT),
     Abs(PUSH), Abs(111), Abs(OUT),
     Abs(PUSH), Abs(114), Abs(OUT),
     Abs(PUSH), Abs(108), Abs(OUT),
     Abs(PUSH), Abs(100), Abs(OUT),
     Abs(PUSH), Abs(33), Abs(OUT),
     Abs(PUSH), Abs(10), Abs(OUT),
     Abs(PUSH), Rel(WordSize), Abs(JMP) >>

\* "Hello world!\n"
HelloText == <<72, 101, 108, 108, 111, 32, 119, 111, 114, 108, 100, 33, 10>>

\* The echo loop: IN; OUT; and a jump back to the IN.
EchoLoads == << Abs(IN_), Abs(OUT), Abs(PUSH), Abs(0), Abs(JMP) >>

\* The cells and the words of the store-and-load programs: the last word of
\* memory and a cell off the loader's stride; a word that is no opcode, the
\* opcodes NOP and PUSH, and a word wider than a byte.
StoreAddresses == {CAPACITY - WordSize, CAPACITY - 2 * WordSize - 1}

StoreWords == {-1, NOP, PUSH, 300}

\* STOR of v at a followed by LOAD of a, the word loaded then written out
\* and a jump taken to a.
StoreLoads(a, v) ==
  << Abs(PUSH), Abs(a), Abs(PUSH), Abs(v), Abs(PUSH), Abs(a), Abs(STOR),
     Abs(LOAD), Abs(OUT), Abs(PUSH), Abs(a), Abs(JMP) >>

\* The address of the k-th word the loader writes.
Slot(k) == (k - 1) * WordSize

\* The first k words of program P are in memory where the loader puts them.
Holds(P, k) == \A j \in 1..k : memory[Slot(j)] = Arg(P[j], Slot(j))

\* The next load() call of program P.
LoadProgram(P) ==
  LET k == ip \div WordSize
  IN  /\ pc = "load"
      /\ k < Len(P)
      /\ Holds(P, k)
      /\ load(Arg(P[k + 1], ip))

\* init() once program P is loaded.
RunProgram(P) ==
  /\ pc = "load"
  /\ ip = Len(P) * WordSize
  /\ Holds(P, Len(P))
  /\ init

NextDemo ==
  \/ LoadProgram(HelloLoads)
  \/ LoadProgram(EchoLoads)
  \/ \E a \in StoreAddresses, v \in StoreWords : LoadProgram(StoreLoads(a, v))
  \/ RunProgram(HelloLoads)
  \/ RunProgram(EchoLoads)
  \/ \E a \in StoreAddresses, v \in StoreWords : RunProgram(StoreLoads(a, v))
  \/ traced < DemoSteps /\ StepNOP
  \/ traced < DemoSteps /\ StepIN
  \/ traced < DemoSteps /\ StepOUT
  \/ traced < DemoSteps /\ StepLOAD
  \/ traced < DemoSteps /\ StepSTOR
  \/ traced < DemoSteps /\ StepPUSH
  \/ traced < DemoSteps /\ StepDUP
  \/ traced < DemoSteps /\ StepJMP
  \/ traced < DemoSteps /\ StepOther

SpecDemo == Init /\ [][NextDemo]_vars

\* The loop does not stop between iterations.
SpecDemoFair == SpecDemo /\ WF_vars(NextDemo)

(***************************************************************************)
(* SpecStack: push(v) and pop() called directly, one after the other, on   *)
(* every stack of at most MaxDepth words.                                  *)
(***************************************************************************)
\* The words of the stacks of SpecStack.
StackWords == {-1, 0, 7}

Stacks == UNION {[1..k -> StackWords] : k \in 0..MaxDepth}

InitStack ==
  /\ memory = [a \in Addresses |-> NOP]
  /\ ip = 0
  /\ stack \in Stacks
  /\ under = 0
  /\ alloc = (stack # <<>>)
  /\ fin = <<>>
  /\ feof = FALSE
  /\ fout = <<>>
  /\ pc = "call"
  /\ exitCode = -1
  /\ msg = ""
  /\ traced = 0
  /\ \E v \in StackWords \cup {CAPACITY} :
       call = [v |-> v, s |-> stack, n |-> 0, at |-> "start"]

\* push(call.v)
CallPush ==
  /\ pc = "call"
  /\ call.at = "start"
  /\ stack' = push(stack, call.v)
  /\ alloc' = TRUE
  /\ call' = [call EXCEPT !.at = "pushed"]
  /\ UNCHANGED <<memory, ip, under, fin, feof, fout, pc, exitCode, msg, traced>>

\* call.n = pop()
CallPop ==
  /\ pc = "call"
  /\ call.at = "pushed"
  /\ \E p \in pop(stack, under) :
       IF p.fault
         THEN /\ pc' = "crash"
              /\ UNCHANGED <<stack, under, call>>
         ELSE /\ stack' = p.s
              /\ under' = p.u
              /\ call' = [call EXCEPT !.n = p.n, !.at = "popped"]
              /\ pc' = pc
  /\ UNCHANGED <<memory, ip, alloc, fin, feof, fout, exitCode, msg, traced>>

NextStack ==
  \/ CallPush
  \/ CallPop

SpecStack == InitStack /\ [][NextStack]_vars

(***************************************************************************)
(* The properties.                                                         *)
(***************************************************************************)
\* The loop is about to fetch and decode op at an address inside memory.
Decoding(op) == pc = "run" /\ ip \in Addresses /\ memory[ip] = op

\* One iteration of the loop takes place.
Iterates == traced' = traced + 1

\* The top of the stack.
Top == stack[Len(stack)]

\* The stack without its top.
Below == SubSeq(stack, 1, Len(stack) - 1)

\* The process has ended.
Terminated == pc \in {"exit", "crash"}

\* The process has ended with the fatal status.
Fatal == pc = "exit" /\ exitCode = 1

\* How many operands an opcode pops.
Operands(op) ==
  IF op \in {ADD, SUB, AND, OR, XOR, STOR} THEN 2
  ELSE IF op \in {NOT, OUT, LOAD, JMP, JZ, DUP} THEN 1
  ELSE 0

\* C1: at every fetch of the loop, 0 <= ip < CAPACITY.
C1_FetchInRange == pc = "run" => ip \in Addresses

\* The iteration about to run uses the top of the stack as a memory address.
UsesAddress ==
  /\ pc = "run"
  /\ ip \in Addresses
  /\ \/ memory[ip] \in {LOAD, JMP} /\ Len(stack) >= 1
     \/ memory[ip] = STOR /\ Len(stack) >= 2
     \/ memory[ip] = JZ /\ Len(stack) >= 1 /\ Top = 0

\* C2: LOAD, STOR, JMP or JZ with a popped address a < 0 or a >= CAPACITY
\* ends the run with the fatal status, leaves memory as it is and never
\* sets ip to a.
C2_BoundsEnforced ==
  [][(UsesAddress /\ Top \notin Addresses /\ Iterates)
       => (Fatal' /\ memory' = memory /\ ip' # Top)]_vars

\* The iteration about to run pops more words than the stack holds.
Underflows ==
  /\ pc = "run"
  /\ ip \in Addresses
  /\ memory[ip] \in Opcodes
  /\ Len(stack) < Operands(memory[ip])

\* C3: an opcode executed on fewer words than it pops ends the run with the
\* fatal status and changes neither memory nor the output.
C3_UnderflowFatal ==
  [][(Underflows /\ Iterates) => (Fatal' /\ memory' = memory /\ fout' = fout)]_vars

\* The halting program: PUSH <address of the JMP>; JMP, loaded at 0.
HaltProgram ==
  /\ pc # "load"
  /\ memory[0] = PUSH
  /\ memory[WordSize] = 2 * WordSize
  /\ memory[2 * WordSize] = JMP

\* C4: JMP pops a and checks its bounds; a jump to the address of the JMP
\* itself ends the run with status 0 and no output, any other jump inside
\* memory sets ip to exactly a; so PUSH <address of the JMP>; JMP halts with
\* status 0 and no output at its second iteration.
C4_Jmp ==
  /\ [][(Decoding(JMP) /\ Len(stack) >= 1 /\ Iterates)
          => /\ stack' = Below
             /\ fout' = fout
             /\ memory' = memory
             /\ (Top \in Addresses /\ Top = ip)
                  => (pc' = "exit" /\ exitCode' = 0 /\ msg' = "HALT" /\ ip' = ip)
             /\ (Top \in Addresses /\ Top # ip)
                  => (pc' = "run" /\ ip' = Top)
             /\ (Top < 0 \/ Top > CAPACITY) => Fatal']_vars
  /\ [](HaltProgram
          => /\ traced <= 2
             /\ traced = 2 => (pc = "exit" /\ exitCode = 0 /\ fout = <<>>)
             /\ traced < 2 => pc = "run")

\* The run of PUSH <address of the JMP>; JMP has halted by the self-jump.
C4_Witness ==
  /\ HaltProgram
  /\ pc = "exit"
  /\ exitCode = 0
  /\ msg = "HALT"
  /\ traced = 2
  /\ ip = 2 * WordSize

\* C5: a fetched word that is no opcode ends the run with the fatal status.
C5_InvalidOpcodeFatal ==
  [][(pc = "run" /\ ip \in Addresses /\ memory[ip] \notin Opcodes /\ Iterates)
       => Fatal']_vars

\* C6: a run that has ended has ended with status 0 by a self-jump, or with
\* the fatal status.
C6_OnlySelfJumpSucceeds ==
  Terminated
    => \/ /\ pc = "exit"
          /\ exitCode = 0
          /\ msg = "HALT"
          /\ ip \in Addresses => memory[ip] = JMP
       \/ Fatal

\* main()'s program is loaded and the loader is done.
HelloLoaded == pc # "load" /\ Holds(HelloLoads, Len(HelloLoads))

\* main()'s program has halted with its message written.
HelloHalted ==
  /\ HelloLoaded
  /\ pc = "exit"
  /\ exitCode = 0
  /\ msg = "HALT"
  /\ fout = HelloText
  /\ stack = <<>>
  /\ ip = (Len(HelloLoads) - 1) * WordSize

\* C7: the run of main()'s program halts by self-jump with status 0, the
\* output then being "Hello world!\n" and the stack empty, with no fault
\* and no fatal exit on the way.
C7_Hello ==
  /\ (HelloLoaded ~> HelloHalted)
  /\ [](HelloLoaded
          => /\ pc # "crash"
             /\ exitCode # 1
             /\ ip \in Addresses
             /\ under = 0
             /\ pc = "exit" => HelloHalted)

\* The hello run has halted.
C7_Witness == HelloHalted /\ traced = 28

\* The echo loop is loaded and the loader is done.
EchoLoaded == pc # "load" /\ Holds(EchoLoads, Len(EchoLoads))

\* C8: while the echo loop reads bytes, the output after N iterations is
\* the N bytes read, in order: each OUT writes the byte the IN before it
\* read, and every iteration leaves the stack as it found it.
C8_Echo ==
  (EchoLoaded /\ ~feof)
    => /\ pc = "run"
       /\ under = 0
       /\ CASE ip = 0 ->
                 fout = fin /\ stack = <<>> /\ traced = 4 * Len(fin)
            [] ip = WordSize ->
                 /\ Len(fin) >= 1
                 /\ stack = <<fin[Len(fin)]>>
                 /\ fout = SubSeq(fin, 1, Len(fin) - 1)
            [] ip = 2 * WordSize -> fout = fin /\ stack = <<>>
            [] ip = 4 * WordSize -> fout = fin /\ stack = <<0>>
            [] OTHER -> FALSE

\* Three different bytes have been echoed.
C8_Witness ==
  /\ EchoLoaded
  /\ ~feof
  /\ ip = 0
  /\ fin = <<255, 0, 65>>
  /\ traced = 12

\* C9: push(v) followed by pop() returns v and leaves the stack as it was.
C9_RoundTrip ==
  /\ pc # "crash"
  /\ call.at = "popped" => (call.n = call.v /\ stack = call.s /\ under = 0)

\* The round trip has been made on a full stack of different words.
C9_Witness ==
  /\ call.at = "popped"
  /\ Len(call.s) = MaxDepth
  /\ call.s[1] # call.s[MaxDepth]
  /\ call.v # call.s[MaxDepth]

\* C10: DUP on a stack whose top is v leaves v as the top two words, the
\* stack one word longer, the words below, memory and output unchanged.
C10_Dup ==
  [][(Decoding(DUP) /\ Len(stack) >= 1 /\ Iterates)
       => /\ stack' = Append(stack, Top)
          /\ memory' = memory
          /\ fout' = fout
          /\ pc' = "run"]_vars

\* PUSH v; DUP has run.
C10_Witness ==
  /\ pc = "run"
  /\ memory[0] = PUSH
  /\ memory[2 * WordSize] = DUP
  /\ traced = 2
  /\ ip = 3 * WordSize
  /\ stack = <<memory[WordSize], memory[WordSize]>>

\* The iteration about to run is one that ends by the advance of ip: an
\* opcode that redirects nothing, or JZ on a non-zero word, with the words it
\* pops on the stack.
Advances ==
  /\ pc = "run"
  /\ ip \in Addresses
  /\ \/ memory[ip] \in {NOP, ADD, SUB, AND, OR, XOR, NOT, IN_, OUT, LOAD, STOR, DUP}
     \/ memory[ip] = JZ /\ Len(stack) >= 1 /\ Top # 0
  /\ Len(stack) >= Operands(memory[ip])

\* C11: the advance moves ip by one word of the word-addressed memory, from
\* p to p + 1 when p + 1 < CAPACITY and from the last index to 0, and NOP
\* changes nothing but ip.
C11_AdvanceOneWord ==
  [][(Advances /\ Iterates /\ pc' = "run")
       => /\ ip' = IF ip + 1 < CAPACITY THEN ip + 1 ELSE 0
          /\ memory[ip] = NOP
               => UNCHANGED <<memory, stack, under, fin, feof, fout>>]_vars

\* C12: PUSH fetched at p advances ip once, pushes the word stored at the
\* new ip (the stack one word longer, its top that memory word) and advances
\* ip once more, so that the next fetch is not of the immediate; memory and
\* the output are unchanged.
C12_Push ==
  [][(Decoding(PUSH) /\ Iterates)
       => /\ next(ip) \in Addresses
          /\ stack' = Append(stack, memory[next(ip)])
          /\ ip' = next(next(ip))
          /\ ip' # next(ip)
          /\ memory' = memory
          /\ fout' = fout
          /\ pc' = "run"]_vars

\* The store-and-load program of address a and word v is loaded and the
\* loader is done.
StoreLoaded(a, v) == pc # "load" /\ Holds(StoreLoads(a, v), Len(StoreLoads(a, v)))

C14_Jz ==
  [][(Decoding(JZ) /\ Len(stack) >= 1 /\ Iterates)
       => /\ stack' = Below
          /\ pc' = "run"
          /\ ip' = IF Top # 0 THEN next(ip) ELSE 0
          /\ UNCHANGED <<memory, fin, fout, exitCode, msg>>]_vars

\* PUSH -1; JZ has run: the word outside memory was not taken for an
\* address and ip went on to the word after the JZ.
C14_Witness ==
  /\ pc = "run"
  /\ memory[0] = PUSH
  /\ memory[WordSize] = -1
  /\ memory[2 * WordSize] = JZ
  /\ traced = 2
  /\ stack = <<>>
  /\ ip = 3 * WordSize

\* C15: SUB pops the top as a and the word below as b and pushes a - b: the
\* stack is one word shorter, the words below the two unchanged, and ip
\* advances.
C15_Sub ==
  [][(Decoding(SUB) /\ Len(stack) >= 2 /\ Iterates)
       => /\ stack' = Append(SubSeq(stack, 1, Len(stack) - 2),
                             Top - stack[Len(stack) - 1])
          /\ ip' = next(ip)
          /\ pc' = "run"
          /\ UNCHANGED <<memory, fin, fout>>]_vars

\* IN; IN; SUB has run on the bytes 65 and 0: the top 0 minus the 65 below.
C15_Witness ==
  /\ pc = "run"
  /\ memory[2 * WordSize] = SUB
  /\ fin = <<65, 0>>
  /\ traced = 3
  /\ stack = <<-65>>

\* C16: ADD, AND, OR and XOR on a stack of two words or more give the same
\* result and the same stack whichever pop() is evaluated first: the two top
\* words x and y are replaced by op(x, y), the words below unchanged.
C16_OrderFree ==
  [][(/\ \E op \in {ADD, AND, OR, XOR} : Decoding(op)
      /\ Len(stack) >= 2
      /\ Iterates)
       => /\ stack' = Append(SubSeq(stack, 1, Len(stack) - 2),
                             Apply(memory[ip], Top, stack[Len(stack) - 1]))
          /\ stack' = Append(SubSeq(stack, 1, Len(stack) - 2),
                             Apply(memory[ip], stack[Len(stack) - 1], Top))
          /\ ip' = next(ip)
          /\ pc' = "run"
          /\ UNCHANGED <<memory, fin, fout>>]_vars

\* IN; IN; XOR has run on the bytes 65 and 255.
C16_Witness ==
  /\ pc = "run"
  /\ memory[2 * WordSize] = XOR
  /\ fin = <<65, 255>>
  /\ traced = 3
  /\ stack = <<190>>

\* C17: IN reads one byte of the input and pushes its value, or at the end
\* of the input pushes -1 and reads nothing; it changes neither memory nor
\* the output and always advances ip.
C17_In ==
  [][(Decoding(IN_) /\ Iterates)
       => /\ Len(stack') = Len(stack) + 1
          /\ SubSeq(stack', 1, Len(stack)) = stack
          /\ \/ /\ ~feof
                /\ fin' = Append(fin, stack'[Len(stack')])
                /\ stack'[Len(stack')] \in 0..255
                /\ ~feof'
             \/ /\ fin' = fin
                /\ stack'[Len(stack')] = EOF
                /\ feof'
          /\ ip' = next(ip)
          /\ pc' = "run"
          /\ UNCHANGED <<memory, fout>>]_vars

\* IN; IN has run on an input of the one byte 255.
C17_Witness ==
  /\ pc = "run"
  /\ memory[0] = IN_
  /\ memory[WordSize] = IN_
  /\ traced = 2
  /\ fin = <<255>>
  /\ feof
  /\ stack = <<255, EOF>>

\* C18: OUT pops one word and appends to the output the one byte of its low
\* 8 bits; the output only grows at its end and only by an OUT, never by
\* another opcode, a trace line or the message of an exit.
C18_Out ==
  /\ [][(Decoding(OUT) /\ Len(stack) >= 1 /\ Iterates)
          => /\ fout' = Append(fout, Top % 256)
             /\ stack' = Below
             /\ pc' = "run"]_vars
  /\ [][fout' # fout
          => /\ pc = "run"
             /\ OUT \in Read(ip)
             /\ Len(fout') = Len(fout) + 1
             /\ SubSeq(fout', 1, Len(fout)) = fout
             /\ fout'[Len(fout')] \in 0..255]_vars

\* PUSH -1; OUT has run.
C18_Witness ==
  /\ pc = "run"
  /\ memory[0] = PUSH
  /\ memory[WordSize] = -1
  /\ memory[2 * WordSize] = OUT
  /\ traced = 2
  /\ stack = <<>>
  /\ fout = <<255>>

\* C19: once the loop runs, memory is modified by STOR only: every step of
\* another opcode and every step that ends the run leaves it unchanged.
C19_OnlyStorWrites ==
  [][(pc # "load" /\ memory' # memory)
       => /\ pc = "run"
          /\ pc' = "run"
          /\ STOR \in Read(ip)
          /\ Len(stack) >= 2 => memory' = [memory EXCEPT ![Top] = stack[Len(stack) - 1]]]_vars

\* IN; IN; STOR has run on the bytes 65 and 0 and has overwritten the IN at
\* address 0.
C19_Witness ==
  /\ pc = "run"
  /\ memory[0] = 65
  /\ memory[WordSize] = IN_
  /\ memory[2 * WordSize] = STOR
  /\ fin = <<65, 0>>
  /\ traced = 3
  /\ stack = <<>>

\* C20: the reading of the stack for the trace line changes nothing and
\* reads no position outside [0, size): on a stack of any size, 0, 1 and 2
\* included, each of the two words traced is the default NOP or the word at
\* an index of the stack.
C20_Peek ==
  (pc = "run" /\ under = 0)
    => \A t \in peek(stack) :
         /\ t.s = stack
         /\ t.reads \subseteq 0..(Len(stack) - 1)
         /\ t.a = (IF Len(stack) > 1 THEN Top ELSE NOP)
         /\ t.b = (IF Len(stack) > 2 THEN Top ELSE NOP)

\* The loop has come to trace stacks of every size from 0 to 3.
C20_Witness ==
  /\ pc = "run"
  /\ under = 0
  /\ memory[0] = IN_
  /\ memory[WordSize] = DUP
  /\ memory[2 * WordSize] = DUP
  /\ traced = 3
  /\ stack = <<255, 255, 255>>
  /\ \E t \in peek(stack) : t.reads = {2} /\ t.a = 255 /\ t.b = 255

=============================================================================
